---------------------------- MODULE Spec2Model ----------------------------
(***************************************************************************)
(* A model of the Finmarket client (finmarket/client.py, models.py).       *)
(*                                                                         *)
(* Texts, keys and numerals are sequences of one-character strings, so    *)
(* that the regular expressions and the int()/float() conversions of the  *)
(* parser are computed character by character.  A float is kept as an     *)
(* exact decimal [neg, ip, fp]: sign, integer part, fractional digits     *)
(* without trailing zeros.                                                 *)
(***************************************************************************)
EXTENDS Integers, Sequences, FiniteSets, TLC

VARIABLES
    \* ---- _parse_chart_response, run on its own (ParseSpec) ----
    frags,      \* the fragments the input text was written from
    text,       \* the input text
    objects,    \* the matches of object_pattern, in order
    idx,        \* how many matches the loop has consumed
    points,     \* the list being built
    origin,     \* origin[k]: the match that appended points[k]
    ppc,        \* "idle", "start", "loop", "returned" or "raised"
    \* ---- the client's public operations (Spec) ----
    today,      \* the clock: what date.today() returns
    pc,         \* "idle" or "get" (a GET is in flight)
    op,         \* the public operation called last
    chartCalls, \* the calls of get_chart_data made by op, with their arguments
    req,        \* the request handed to session.get
    gets,       \* the GET attempts made by op
    transport,  \* what the transport answered
    inner,      \* what get_chart_data returned or raised
    result      \* what op returned or raised

parseVars == <<frags, text, objects, idx, points, origin, ppc>>
clientVars == <<today, pc, op, chartCalls, req, gets, transport, inner, result>>
vars == <<frags, text, objects, idx, points, origin, ppc,
          today, pc, op, chartCalls, req, gets, transport, inner, result>>

(***************************************************************************)
(* Characters and small helpers                                            *)
(***************************************************************************)
Digits == <<"0", "1", "2", "3", "4", "5", "6", "7", "8", "9">>

IsDigit(c) == \E d \in 1..Len(Digits) : Digits[d] = c

DigitVal(c) == (CHOOSE d \in 1..Len(Digits) : Digits[d] = c) - 1

\* exceptions are records, so that any two of them can be compared
Err(type) == [type |-> type]

ValueError == Err("ValueError")

Min(S) == CHOOSE x \in S : \A y \in S : x <= y

\* s has the literal pat at position i
StartsAt(s, i, pat) ==
    /\ i >= 1
    /\ i + Len(pat) - 1 <= Len(s)
    /\ \A k \in 1..Len(pat) : s[i + k - 1] = pat[k]

\* first position >= from holding the character c, 0 when there is none
IndexOf(s, c, from) ==
    LET P == {p \in from..Len(s) : s[p] = c}
    IN  IF P = {} THEN 0 ELSE Min(P)

(***************************************************************************)
(* object_pattern (line 160): the literal "{date:new Date(", one or more  *)
(* characters other than ")", a ")", any characters other than "}", a "}". *)
(* re.findall gives the non-overlapping matches, leftmost first.           *)
(***************************************************************************)
ObjectOpen == <<"{", "d", "a", "t", "e", ":", "n", "e", "w", " ", "D", "a", "t", "e", "(">>

NoMatch == [found |-> FALSE]

\* the match of object_pattern that starts at position i, if there is one
MatchObjectAt(s, i) ==
    IF ~StartsAt(s, i, ObjectOpen) THEN NoMatch
    ELSE LET a == i + Len(ObjectOpen)
             p == IndexOf(s, ")", a)
         IN  IF p = 0 \/ p = a THEN NoMatch
             ELSE LET q == IndexOf(s, "}", p + 1)
                  IN  IF q = 0 THEN NoMatch
                      ELSE [found |-> TRUE,
                            date_part |-> SubSeq(s, a, p - 1),
                            rest_part |-> SubSeq(s, p + 1, q - 1),
                            end |-> q]

RECURSIVE FindAllFrom(_, _)
FindAllFrom(s, i) ==
    IF i > Len(s) THEN <<>>
    ELSE LET m == MatchObjectAt(s, i)
         IN  IF m.found
             THEN <<[date_part |-> m.date_part, rest_part |-> m.rest_part]>>
                  \o FindAllFrom(s, m.end + 1)
             ELSE FindAllFrom(s, i + 1)

FindAll(s) == FindAllFrom(s, 1)

(***************************************************************************)
(* date_part.split(','), x.strip(), int(x)                                 *)
(***************************************************************************)
RECURSIVE Split(_, _)
Split(s, c) ==
    LET p == IndexOf(s, c, 1)
    IN  IF p = 0 THEN <<s>>
        ELSE <<SubSeq(s, 1, p - 1)>> \o Split(SubSeq(s, p + 1, Len(s)), c)

IsSpace(c) == c \in {" ", "\t", "\n", "\r"}

Strip(s) ==
    LET N == {p \in 1..Len(s) : ~IsSpace(s[p])}
    IN  IF N = {} THEN <<>>
        ELSE SubSeq(s, Min(N), CHOOSE p \in N : \A r \in N : r <= p)

RECURSIVE DigitsValue(_, _)
DigitsValue(s, acc) ==
    IF s = <<>> THEN acc
    ELSE IF s[1] = "_" THEN DigitsValue(Tail(s), acc)
    ELSE DigitsValue(Tail(s), 10 * acc + DigitVal(s[1]))

\* the body of an integer literal: digits, single underscores between them
IsIntBody(b) ==
    /\ b # <<>>
    /\ \A p \in 1..Len(b) : IsDigit(b[p]) \/ b[p] = "_"
    /\ b[1] # "_" /\ b[Len(b)] # "_"
    /\ \A p \in 1..(Len(b) - 1) : ~(b[p] = "_" /\ b[p + 1] = "_")

\* int(x) of a string: [ok |-> FALSE] stands for ValueError
PyInt(x) ==
    LET t == Strip(x)
        signed == t # <<>> /\ t[1] \in {"-", "+"}
        b == IF signed THEN Tail(t) ELSE t
    IN  IF ~IsIntBody(b) THEN [ok |-> FALSE]
        ELSE [ok |-> TRUE,
              v |-> IF signed /\ t[1] = "-" THEN 0 - DigitsValue(b, 0)
                    ELSE DigitsValue(b, 0)]

(***************************************************************************)
(* datetime(year, month, day, hour, minute, second)                        *)
(***************************************************************************)
IsLeap(y) == (y % 4 = 0) /\ ((y % 100 # 0) \/ (y % 400 = 0))

DaysInMonth(y, m) ==
    IF m = 2 THEN (IF IsLeap(y) THEN 29 ELSE 28)
    ELSE IF m \in {4, 6, 9, 11} THEN 30 ELSE 31

\* a variant that keeps the 0-indexed month
ToPyMonthUnshifted(month) == month

\* month + 1: JavaScript months are 0-indexed
ToPyMonth(month) == month + 1

DateTimeOk(y, m, d, hh, mm, ss) ==
    /\ y \in 1..9999
    /\ m \in 1..12
    /\ d >= 1 /\ d <= DaysInMonth(y, m)
    /\ hh \in 0..23 /\ mm \in 0..59 /\ ss \in 0..59

\* the length test of lines 170-172 taken one too far: the last component
\* given is read as absent
DateComponentOffByOne(date_values, k) ==
    IF Len(date_values) > k THEN date_values[k] ELSE 0

\* the optional component k of the date, 0 when it is absent
DateComponent(date_values, k) ==
    IF Len(date_values) > k - 1 THEN date_values[k] ELSE 0

\* lines 167-176: "raise" (ValueError), "skip" (continue) or the datetime
ParseDate(date_part) ==
    LET parts == Split(date_part, ",")
        ints == [k \in 1..Len(parts) |-> PyInt(parts[k])]
    IN  IF \E k \in 1..Len(ints) : ~ints[k].ok THEN [kind |-> "raise"]
        ELSE LET date_values == [k \in 1..Len(ints) |-> ints[k].v]
             IN  IF Len(date_values) >= 3
                 THEN LET year == date_values[1]
                          month == ToPyMonth(date_values[2])
                          day == date_values[3]
                          hour == DateComponent(date_values, 4)
                          minute == DateComponent(date_values, 5)
                          second == DateComponent(date_values, 6)
                      IN  IF DateTimeOk(year, month, day, hour, minute, second)
                          THEN [kind |-> "date",
                                date |-> [year |-> year, month |-> month, day |-> day,
                                          hour |-> hour, minute |-> minute,
                                          second |-> second]]
                          ELSE [kind |-> "raise"]
                 ELSE [kind |-> "skip"]

(***************************************************************************)
(* re.search(rf'{field}:([-\d.]+)', full_obj), float(value), int(float())  *)
(***************************************************************************)
Fields == <<"close", "high", "low", "open", "volume", "pctrel", "decimals">>

FieldChars(field) ==
    CASE field = "close" -> <<"c", "l", "o", "s", "e">>
      [] field = "high" -> <<"h", "i", "g", "h">>
      [] field = "low" -> <<"l", "o", "w">>
      [] field = "open" -> <<"o", "p", "e", "n">>
      [] field = "volume" -> <<"v", "o", "l", "u", "m", "e">>
      [] field = "pctrel" -> <<"p", "c", "t", "r", "e", "l">>
      [] field = "decimals" -> <<"d", "e", "c", "i", "m", "a", "l", "s">>

IntFields == {"volume", "decimals"}

\* the character class [-\d.]
IsNumChar(c) == IsDigit(c) \/ c \in {"-", "."}

\* the field pattern matches at position i: the name, a colon, one class character
FieldMatchesAt(s, i, name) ==
    /\ StartsAt(s, i, name \o <<":">>)
    /\ i + Len(name) + 1 <= Len(s)
    /\ IsNumChar(s[i + Len(name) + 1])

\* the longest run of class characters that starts at position a
NumRun(s, a) ==
    LET Stop == {p \in a..Len(s) : ~IsNumChar(s[p])}
    IN  SubSeq(s, a, IF Stop = {} THEN Len(s) ELSE Min(Stop) - 1)

\* re.search: group 1 of the leftmost match, or no match
SearchField(s, field) ==
    LET name == FieldChars(field)
        P == {i \in 1..Len(s) : FieldMatchesAt(s, i, name)}
    IN  IF P = {} THEN [found |-> FALSE]
        ELSE [found |-> TRUE, value |-> NumRun(s, Min(P) + Len(name) + 1)]

RECURSIVE StripZeros(_)
StripZeros(ds) ==
    IF ds # <<>> /\ ds[Len(ds)] = 0 THEN StripZeros(SubSeq(ds, 1, Len(ds) - 1))
    ELSE ds

Dec(neg, ip, fp) ==
    LET f == StripZeros(fp)
    IN  [neg |-> neg /\ ~(ip = 0 /\ f = <<>>), ip |-> ip, fp |-> f]

\* float(value) for a value made of class characters: [ok |-> FALSE] is ValueError
PyFloat(value) ==
    LET signed == value # <<>> /\ value[1] = "-"
        b == IF signed THEN Tail(value) ELSE value
        dot == IndexOf(b, ".", 1)
        ipart == IF dot = 0 THEN b ELSE SubSeq(b, 1, dot - 1)
        fpart == IF dot = 0 THEN <<>> ELSE SubSeq(b, dot + 1, Len(b))
    IN  IF /\ \A p \in 1..Len(ipart) : IsDigit(ipart[p])
           /\ \A p \in 1..Len(fpart) : IsDigit(fpart[p])
           /\ Len(ipart) + Len(fpart) > 0
        THEN [ok |-> TRUE,
              v |-> Dec(signed, DigitsValue(ipart, 0),
                        [p \in 1..Len(fpart) |-> DigitVal(fpart[p])])]
        ELSE [ok |-> FALSE]

\* int(f) of a float: truncation toward zero
TruncToInt(f) == IF f.neg THEN 0 - f.ip ELSE f.ip

\* lines 184-187: the value stored in point_data for a field
ConvertField(field, f) == IF field \in IntFields THEN TruncToInt(f) ELSE f

FullObj(obj) == ObjectOpen \o obj.date_part \o <<")">> \o obj.rest_part \o <<"}">>

\* lines 180-187: "raise" on a ValueError, else the point_data of the fields found
ExtractFields(full_obj) ==
    LET m == [k \in 1..Len(Fields) |-> SearchField(full_obj, Fields[k])]
        fl == [k \in 1..Len(Fields) |->
                 IF m[k].found THEN PyFloat(m[k].value) ELSE [ok |-> TRUE]]
    IN  IF \E k \in 1..Len(Fields) : m[k].found /\ ~fl[k].ok
        THEN [kind |-> "raise"]
        ELSE [kind |-> "data",
              found |-> {Fields[k] : k \in {j \in 1..Len(Fields) : m[j].found}},
              data |-> [k \in 1..Len(Fields) |->
                          IF m[k].found THEN ConvertField(Fields[k], fl[k].v)
                          ELSE 0]]

FieldIndex(field) == CHOOSE k \in 1..Len(Fields) : Fields[k] = field

DefaultFloat == Dec(FALSE, 0, <<>>)

DefaultPointVolume == 0

DefaultPointDecimals == 2

\* point_data.get(field, default)
GetOr(pd, field, default) ==
    IF field \in pd.found THEN pd.data[FieldIndex(field)] ELSE default

\* lines 190-199: the ChartPoint built from point_data
MakePoint(date, pd) ==
    [date |-> date,
     open |-> GetOr(pd, "open", DefaultFloat),
     high |-> GetOr(pd, "high", DefaultFloat),
     low |-> GetOr(pd, "low", DefaultFloat),
     close |-> pd.data[FieldIndex("close")],
     volume |-> GetOr(pd, "volume", DefaultPointVolume),
     pctrel |-> GetOr(pd, "pctrel", DefaultFloat),
     decimals |-> GetOr(pd, "decimals", DefaultPointDecimals)]

\* the condition of line 189 ('date' is always present here)
HasClose(pd) == "close" \in pd.found

\* one iteration of the loop of lines 163-199
ProcessObject(obj) ==
    LET d == ParseDate(obj.date_part)
    IN  IF d.kind = "raise" THEN [kind |-> "raise"]
        ELSE IF d.kind = "skip" THEN [kind |-> "none"]
        ELSE LET pd == ExtractFields(FullObj(obj))
             IN  IF pd.kind = "raise" THEN [kind |-> "raise"]
                 ELSE IF HasClose(pd)
                      THEN [kind |-> "point", point |-> MakePoint(d.date, pd)]
                      ELSE [kind |-> "none"]

(***************************************************************************)
(* Input texts.  A text is written from a sequence of fragments; a        *)
(* fragment is a list of date arguments and a list of key:value pairs.    *)
(* Each token carries its characters and, beside them, what it denotes    *)
(* (ok/v for a date argument, isnum/num for a value), which the parser    *)
(* never reads.                                                            *)
(***************************************************************************)
MaxFrags == 2

Arg(chars, v) == [chars |-> chars, ok |-> TRUE, v |-> v]

BadArg(chars) == [chars |-> chars, ok |-> FALSE, v |-> 0]

Fld(key, name, val, num) ==
    [key |-> key, name |-> name, val |-> val, isnum |-> TRUE, num |-> num]

BadFld(key, name, val) ==
    [key |-> key, name |-> name, val |-> val, isnum |-> FALSE, num |-> DefaultFloat]

DFull == <<Arg(<<"2", "0", "2", "5">>, 2025), Arg(<<" ", "0">>, 0), Arg(<<" ", "2", "1">>, 21),
           Arg(<<" ", "9">>, 9), Arg(<<" ", "3", "0">>, 30), Arg(<<" ", "4", "5">>, 45)>>

DJune == <<Arg(<<"2", "0", "2", "5">>, 2025), Arg(<<"5">>, 5), Arg(<<"1", "5">>, 15),
           Arg(<<"2", "3">>, 23), Arg(<<"5", "9">>, 59), Arg(<<"5", "9">>, 59)>>

DThree == <<Arg(<<"2", "0", "2", "5">>, 2025), Arg(<<"1", "1">>, 11), Arg(<<"3", "1">>, 31)>>

DFive == <<Arg(<<"2", "0", "2", "4">>, 2024), Arg(<<" ", "1">>, 1), Arg(<<" ", "2", "9">>, 29),
           Arg(<<" ", "9">>, 9), Arg(<<" ", "3", "0">>, 30)>>

DFour == <<Arg(<<"2", "0", "2", "5">>, 2025), Arg(<<" ", "0">>, 0), Arg(<<" ", "2", "1">>, 21),
           Arg(<<" ", "9">>, 9)>>

DTwo == <<Arg(<<"2", "0", "2", "5">>, 2025), Arg(<<" ", "0">>, 0)>>

DOne == <<Arg(<<"2", "0", "2", "5">>, 2025)>>

DMonth12 == <<Arg(<<"2", "0", "2", "5">>, 2025), Arg(<<" ", "1", "2">>, 12), Arg(<<" ", "2", "1">>, 21)>>

DDay0 == <<Arg(<<"2", "0", "2", "5">>, 2025), Arg(<<" ", "0">>, 0), Arg(<<" ", "0">>, 0)>>

DNotInt == <<Arg(<<"2", "0", "2", "5">>, 2025), Arg(<<" ", "0">>, 0), BadArg(<<" ", "x">>)>>

FClose == <<Fld(<<"c", "l", "o", "s", "e">>, "close", <<"0", ".", "2", "4">>, Dec(FALSE, 0, <<2, 4>>))>>

FAll == <<Fld(<<"c", "l", "o", "s", "e">>, "close", <<"0", ".", "2", "5">>, Dec(FALSE, 0, <<2, 5>>)),
          Fld(<<"h", "i", "g", "h">>, "high", <<"0", ".", "2", "5">>, Dec(FALSE, 0, <<2, 5>>)),
          Fld(<<"l", "o", "w">>, "low", <<"0", ".", "2", "4">>, Dec(FALSE, 0, <<2, 4>>)),
          Fld(<<"o", "p", "e", "n">>, "open", <<"0", ".", "2", "4">>, Dec(FALSE, 0, <<2, 4>>)),
          Fld(<<"v", "o", "l", "u", "m", "e">>, "volume", <<"1", "2", "7", "0", "1", "7", "4", "5">>, Dec(FALSE, 12701745, <<>>)),
          Fld(<<"p", "c", "t", "r", "e", "l">>, "pctrel", <<"-", "0", ".", "8", "3">>, Dec(TRUE, 0, <<8, 3>>)),
          Fld(<<"d", "e", "c", "i", "m", "a", "l", "s">>, "decimals", <<"3">>, Dec(FALSE, 3, <<>>))>>

FNone == <<>>

FNoClose == <<Fld(<<"h", "i", "g", "h">>, "high", <<"0", ".", "2", "5">>, Dec(FALSE, 0, <<2, 5>>)),
              Fld(<<"v", "o", "l", "u", "m", "e">>, "volume", <<"1", "2">>, Dec(FALSE, 12, <<>>))>>

FPrevClose == <<Fld(<<"p", "r", "e", "v", "c", "l", "o", "s", "e">>, "prevclose", <<"0", ".", "5">>, Dec(FALSE, 0, <<5>>))>>

FPreOpen == <<Fld(<<"c", "l", "o", "s", "e">>, "close", <<"0", ".", "2", "4">>, Dec(FALSE, 0, <<2, 4>>)),
              Fld(<<"p", "r", "e", "o", "p", "e", "n">>, "preopen", <<"5">>, Dec(FALSE, 5, <<>>))>>

FDash == <<BadFld(<<"c", "l", "o", "s", "e">>, "close", <<"-">>)>>

FBadHigh == <<Fld(<<"c", "l", "o", "s", "e">>, "close", <<"0", ".", "2", "4">>, Dec(FALSE, 0, <<2, 4>>)),
              BadFld(<<"h", "i", "g", "h">>, "high", <<"1", ".", "2", ".", "3">>)>>

FNegVolume == <<Fld(<<"c", "l", "o", "s", "e">>, "close", <<"0", ".", "2", "4">>, Dec(FALSE, 0, <<2, 4>>)),
                Fld(<<"v", "o", "l", "u", "m", "e">>, "volume", <<"-", "1", "2", ".", "7">>, Dec(TRUE, 12, <<7>>))>>

FUnknown == <<Fld(<<"f", "o", "o">>, "foo", <<"7">>, Dec(FALSE, 7, <<>>)),
              Fld(<<"c", "l", "o", "s", "e">>, "close", <<"0", ".", "2", "5">>, Dec(FALSE, 0, <<2, 5>>))>>

FPrevThenClose == <<Fld(<<"p", "r", "e", "v", "c", "l", "o", "s", "e">>, "prevclose", <<"0", ".", "5">>, Dec(FALSE, 0, <<5>>)),
                    Fld(<<"c", "l", "o", "s", "e">>, "close", <<"0", ".", "2", "4">>, Dec(FALSE, 0, <<2, 4>>))>>

Frag(args, fields) == [args |-> args, fields |-> fields]

Fragments ==
    {Frag(DFull, f) : f \in {FClose, FAll, FNone, FNoClose, FPrevClose, FPreOpen,
                             FDash, FBadHigh, FNegVolume, FUnknown, FPrevThenClose}}
    \cup {Frag(d, FClose) : d \in {DJune, DThree, DFour, DFive, DTwo, DOne,
                                     DMonth12, DDay0, DNotInt}}
    \cup {Frag(DThree, FAll)}

FragSeqs == UNION {[1..n -> Fragments] : n \in 0..MaxFrags}

RECURSIVE Join(_, _)
Join(ss, sep) ==
    IF ss = <<>> THEN <<>>
    ELSE IF Len(ss) = 1 THEN ss[1]
    ELSE ss[1] \o sep \o Join(Tail(ss), sep)

RenderField(f) == <<",">> \o f.key \o <<":">> \o f.val

RenderFrag(fr) ==
    ObjectOpen
    \o Join([k \in 1..Len(fr.args) |-> fr.args[k].chars], <<",">>)
    \o <<")">>
    \o Join([k \in 1..Len(fr.fields) |-> RenderField(fr.fields[k])], <<>>)
    \o <<"}">>

Render(frs) ==
    <<"[">> \o Join([k \in 1..Len(frs) |-> RenderFrag(frs[k])], <<",">>) \o <<"]">>

(***************************************************************************)
(* _parse_chart_response, step by step                                     *)
(***************************************************************************)
\* the parser is handed the text written from frs
ParseEntered(frs) ==
    /\ frags' = frs
    /\ text' = Render(frs)
    /\ objects' = <<>>
    /\ idx' = 0
    /\ points' = <<>>
    /\ origin' = <<>>
    /\ ppc' = "start"

\* no text is being parsed
ParseIdle ==
    /\ frags' = <<>>
    /\ text' = <<>>
    /\ objects' = <<>>
    /\ idx' = 0
    /\ points' = <<>>
    /\ origin' = <<>>
    /\ ppc' = "idle"

ParseInit ==
    /\ frags \in FragSeqs
    /\ text = Render(frags)
    /\ objects = <<>>
    /\ idx = 0
    /\ points = <<>>
    /\ origin = <<>>
    /\ ppc = "start"

\* lines 156-161: points = [], objects = re.findall(object_pattern, text)
PFindAll ==
    /\ ppc = "start"
    /\ objects' = FindAll(text)
    /\ ppc' = "loop"
    /\ UNCHANGED <<frags, text, idx, points, origin>>
    /\ UNCHANGED clientVars

\* lines 163-199: one iteration of the loop, which may raise ValueError
PIterate ==
    /\ ppc = "loop"
    /\ idx < Len(objects)
    /\ \E r \in {ProcessObject(objects[idx + 1])} :
           IF r.kind = "raise"
           THEN /\ ppc' = "raised"
                /\ UNCHANGED <<idx, points, origin>>
           ELSE /\ idx' = idx + 1
                /\ points' = IF r.kind = "point" THEN Append(points, r.point)
                             ELSE points
                /\ origin' = IF r.kind = "point" THEN Append(origin, idx + 1)
                             ELSE origin
                /\ ppc' = ppc
    /\ UNCHANGED <<frags, text, objects>>
    /\ UNCHANGED clientVars

\* line 201: return points
PReturn ==
    /\ ppc = "loop"
    /\ idx = Len(objects)
    /\ ppc' = "returned"
    /\ UNCHANGED <<frags, text, objects, idx, points, origin>>
    /\ UNCHANGED clientVars

ParseNext == PFindAll \/ PIterate \/ PReturn

(***************************************************************************)
(* The public operations: request building                                 *)
(***************************************************************************)
BaseUrl == "https://bancobci.finmarketslive.cl/www"

SearchUrl == <<BaseUrl, "/global/buscador.html">>

ChartUrl == <<BaseUrl, "/chart/datachart.html">>

DefaultTimeout == 30

TimeSpans == {"1D", "5D", "1M", "3M", "6M", "1Y", "3Y", "5Y", "10Y", "MAX"}

DefaultTimeSpan == "1Y"

DefaultQuality == "RLT"

DefaultVolume == FALSE

UpperLetters == <<"A", "B", "C", "D", "E", "F", "G", "H", "I", "J", "K", "L", "M", "N", "O", "P", "Q", "R", "S", "T", "U", "V", "W", "X", "Y", "Z">>

LowerLetters == <<"a", "b", "c", "d", "e", "f", "g", "h", "i", "j", "k", "l", "m", "n", "o", "p", "q", "r", "s", "t", "u", "v", "w", "x", "y", "z">>

LowerChar(c) ==
    IF \E k \in 1..Len(UpperLetters) : UpperLetters[k] = c
    THEN LowerLetters[CHOOSE k \in 1..Len(UpperLetters) : UpperLetters[k] = c]
    ELSE c

\* s.lower()
Lower(s) == [k \in 1..Len(s) |-> LowerChar(s[k])]

\* str(b) of a bool
PyStr(b) == IF b THEN <<"T", "r", "u", "e">> ELSE <<"F", "a", "l", "s", "e">>

\* a variant that omits .lower()
VolumeParamNotLowered(volume) == PyStr(volume)

\* line 129: str(volume).lower()
VolumeParam(volume) == Lower(PyStr(volume))

RECURSIVE Pow10(_)
Pow10(n) == IF n = 0 THEN 1 ELSE 10 * Pow10(n - 1)

\* n in decimal, zero-padded to w digits
Pad(n, w) == [k \in 1..w |-> Digits[((n \div Pow10(w - k)) % 10) + 1]]

\* d.strftime("%Y-%m-%d")
Strftime(d) == Pad(d.year, 4) \o <<"-">> \o Pad(d.month, 2) \o <<"-">> \o Pad(d.day, 2)

DateIni == <<"1", "9", "0", "0", "-", "0", "1", "-", "0", "1">>

\* a variant without the MAX branch
ChartParamsSpanOnly(id_notation, time_span, quality, volume, now) ==
    [ID_NOTATION |-> id_notation,
     QUALITY |-> quality,
     VOLUME |-> Lower(PyStr(volume)),
     TIME_SPAN |-> time_span]

\* lines 126-137: the params of the chart request
ChartParams(id_notation, time_span, quality, volume, now) ==
    LET params == [ID_NOTATION |-> id_notation,
                   QUALITY |-> quality,
                   VOLUME |-> VolumeParam(volume)]
    IN  IF time_span = "MAX"
        THEN params @@ [DATEINI |-> DateIni, DATEFIN |-> Strftime(now)]
        ELSE params @@ [TIME_SPAN |-> time_span]

\* lines 76-79: the params of the search request
SearchParams(query, market) == [SEARCH_VALUE |-> query, MERCADO |-> market]

None == [t |-> "none"]

NoOutcome == [kind |-> "none"]

Raise(e) == [kind |-> "raise", error |-> e]

Return(v) == [kind |-> "return", value |-> v]

(***************************************************************************)
(* search: the mapping of one record (lines 89-96)                         *)
(***************************************************************************)
IntVal(n) == [t |-> "int", n |-> n]

StrVal(s) == [t |-> "str", s |-> s]

\* a string holding a decimal numeral, with the number it denotes beside it
NumStr(s, n) == [t |-> "str", s |-> s, n |-> n]

\* item.get(key)
Get(item, key) == IF key \in DOMAIN item THEN item[key] ELSE None

\* the truth value Python gives a JSON value
Truthy(v) ==
    CASE v.t = "none" -> FALSE
      [] v.t = "int" -> v.n # 0
      [] v.t = "str" -> v.s # <<>>

\* a or b
Or(a, b) == IF Truthy(a) THEN a ELSE b

\* int(v) of a JSON value: [ok |-> FALSE] stands for the exception
IntOf(v) ==
    CASE v.t = "int" -> [ok |-> TRUE, v |-> v.n]
      [] v.t = "str" -> PyInt(v.s)
      [] v.t = "none" -> [ok |-> FALSE]

\* a variant that tries the lower-case key first
IdNotationOfLowerFirst(item) ==
    IntOf(Or(Or(Or(Get(item, "id_notation"), Get(item, "ID_NOTATION")),
                Get(item, "id")), IntVal(0)))

\* line 90
IdNotationOf(item) ==
    IntOf(Or(Or(Or(Get(item, "ID_NOTATION"), Get(item, "id_notation")),
                Get(item, "id")), IntVal(0)))

\* line 91
NameOf(item) == Or(Or(Get(item, "NAME"), Get(item, "name")), StrVal(<<>>))

SearchResultOf(item) ==
    [id_notation |-> IdNotationOf(item).v,
     name |-> NameOf(item),
     symbol |-> Or(Get(item, "SYMBOL"), Get(item, "symbol")),
     market |-> Or(Get(item, "MARKET"), Get(item, "market")),
     type |-> Or(Get(item, "TYPE"), Get(item, "type")),
     raw_data |-> item]

\* lines 84-99: what search returns for the decoded body
SearchOutcome(data) ==
    IF data.islist
    THEN IF \E k \in 1..Len(data.items) : ~IdNotationOf(data.items[k]).ok
         THEN Raise(ValueError)
         ELSE Return([k \in 1..Len(data.items) |-> SearchResultOf(data.items[k])])
    ELSE Return(<<>>)

\* lines 142-148: what get_chart_data does once _parse_chart_response has ended
ChartOutcome(call, ended, pts) ==
    IF ended = "raised" THEN Raise(ValueError)
    ELSE Return([id_notation |-> call.id_notation,
                 time_span |-> call.time_span,
                 points |-> pts])

\* response.raise_for_status(): HTTPError for a 4xx or 5xx status
StatusRaises(status) == status >= 400 /\ status < 600

HTTPError(status) == [type |-> "HTTPError", status |-> status]

(***************************************************************************)
(* Inputs of the public operations                                         *)
(***************************************************************************)
MaxItems == 1

Ids == {4039, 9999}

Queries == {"ipsa"}

Markets == {"chile"}

Qualities == {DefaultQuality}

\* the clock, each date with its ISO form beside it
Dates == {[year |-> 2026, month |-> 11, day |-> 3, iso |-> <<"2", "0", "2", "6", "-", "1", "1", "-", "0", "3">>],
          [year |-> 2025, month |-> 1, day |-> 21, iso |-> <<"2", "0", "2", "5", "-", "0", "1", "-", "2", "1">>]}

TransportErrors == {Err("ConnectionError"), Err("Timeout")}

Statuses == {200, 304, 404, 503}

\* response texts of the chart endpoint
ChartBodies == {<<>>,
                <<Frag(DFull, FAll)>>,
                <<Frag(DFull, FClose), Frag(DThree, FAll)>>,
                <<Frag(DMonth12, FClose)>>}

Absent == [t |-> "absent"]

\* records that differ in their identifier keys
IdChoices ==
    [ID_NOTATION : {Absent, None, IntVal(0), IntVal(3969), NumStr(<<"1", "2">>, 12)},
     id_notation : {Absent, IntVal(0), IntVal(4039)},
     id : {Absent, IntVal(7)},
     NAME : {StrVal(<<>>)},
     name : {StrVal(<<"A", "S", "S", "D">>)}]

\* records that differ in their name keys
NameChoices ==
    [ID_NOTATION : {IntVal(0)},
     id_notation : {IntVal(4039)},
     id : {Absent},
     NAME : {Absent, StrVal(<<>>), StrVal(<<"I", "P", "S", "A">>)},
     name : {Absent, StrVal(<<"A", "S", "S", "D">>)}]

\* the record holds the keys that are not Absent
Item(ch) == [k \in {j \in DOMAIN ch : ch[j] # Absent} |-> ch[k]]

Items == {Item(ch) : ch \in IdChoices \cup NameChoices}

\* decoded bodies of the search endpoint: a list of records, or not a list
SearchBodies ==
    {[islist |-> TRUE, items |-> its] :
        its \in UNION {[1..n -> Items] : n \in 0..MaxItems}}
    \cup {[islist |-> FALSE, items |-> <<>>]}

(***************************************************************************)
(* The public operations                                                   *)
(***************************************************************************)
ClientInit ==
    /\ today \in Dates
    /\ pc = "idle"
    /\ op = [fn |-> "none"]
    /\ chartCalls = <<>>
    /\ req = [url |-> <<>>, params |-> <<>>, timeout |-> DefaultTimeout]
    /\ gets = 0
    /\ transport = NoOutcome
    /\ inner = NoOutcome
    /\ result = NoOutcome

\* lines 75-81: search up to the GET
Search(query, market) ==
    /\ pc = "idle"
    /\ op' = [fn |-> "search", query |-> query, market |-> market]
    /\ chartCalls' = <<>>
    /\ req' = [url |-> SearchUrl, params |-> SearchParams(query, market),
               timeout |-> DefaultTimeout]
    /\ gets' = 1
    /\ pc' = "get"
    /\ transport' = NoOutcome /\ inner' = NoOutcome /\ result' = NoOutcome
    /\ ParseIdle
    /\ UNCHANGED today

\* lines 125-139: get_chart_data up to the GET, called by the operation fn
EnterGetChartData(fn, id_notation, time_span, quality, volume) ==
    /\ pc = "idle"
    /\ op' = [fn |-> fn, id_notation |-> id_notation]
    /\ chartCalls' = <<[id_notation |-> id_notation, time_span |-> time_span,
                        quality |-> quality, volume |-> volume]>>
    /\ req' = [url |-> ChartUrl,
               params |-> ChartParams(id_notation, time_span, quality, volume, today),
               timeout |-> DefaultTimeout]
    /\ gets' = 1
    /\ pc' = "get"
    /\ transport' = NoOutcome /\ inner' = NoOutcome /\ result' = NoOutcome
    /\ ParseIdle
    /\ UNCHANGED today

GetChartData(id_notation, time_span, quality, volume) ==
    EnterGetChartData("get_chart_data", id_notation, time_span, quality, volume)

\* line 213
GetIntraday(id_notation) ==
    EnterGetChartData("get_intraday", id_notation, "1D", DefaultQuality, DefaultVolume)

\* a variant that asks for the wrong span
GetWeeklyAsIntraday(id_notation) ==
    EnterGetChartData("get_weekly", id_notation, "1D", DefaultQuality, DefaultVolume)

\* line 225
GetWeekly(id_notation) ==
    EnterGetChartData("get_weekly", id_notation, "5D", DefaultQuality, DefaultVolume)

\* line 237
GetMonthly(id_notation) ==
    EnterGetChartData("get_monthly", id_notation, "1M", DefaultQuality, DefaultVolume)

\* line 249
GetYearly(id_notation) ==
    EnterGetChartData("get_yearly", id_notation, "1Y", DefaultQuality, DefaultVolume)

\* what an accessor returns: the result of get_chart_data
AccessorReturn(r) == r

\* the outcome of the operation, given the outcome of get_chart_data
OpOutcome(fn, r) == IF fn = "get_chart_data" THEN r ELSE AccessorReturn(r)

\* a variant that tries the GET again before giving up
TransportRaisesRetry(e) ==
    /\ pc = "get"
    /\ transport' = [kind |-> "error", error |-> e]
    /\ IF gets <= 2
       THEN /\ gets' = gets + 1
            /\ pc' = "get"
            /\ UNCHANGED <<inner, result>>
       ELSE /\ inner' = IF op.fn = "search" THEN NoOutcome ELSE Raise(e)
            /\ result' = Raise(e)
            /\ pc' = "idle"
            /\ UNCHANGED gets
    /\ UNCHANGED <<today, op, chartCalls, req>>
    /\ UNCHANGED parseVars

\* session.get raises: the exception leaves the operation
TransportRaises(e) ==
    /\ pc = "get"
    /\ transport' = [kind |-> "error", error |-> e]
    /\ inner' = IF op.fn = "search" THEN NoOutcome ELSE Raise(e)
    /\ result' = IF op.fn = "search" THEN Raise(e) ELSE OpOutcome(op.fn, Raise(e))
    /\ pc' = "idle"
    /\ UNCHANGED <<today, op, chartCalls, req, gets>>
    /\ UNCHANGED parseVars

\* lines 139-142: the GET answers; raise_for_status, then the text is parsed
ChartResponds(status, body) ==
    /\ pc = "get"
    /\ op.fn # "search"
    /\ transport' = [kind |-> "response", status |-> status]
    /\ IF StatusRaises(status)
       THEN /\ inner' = Raise(HTTPError(status))
            /\ result' = OpOutcome(op.fn, inner')
            /\ pc' = "idle"
            /\ UNCHANGED parseVars
       ELSE /\ pc' = "parse"
            /\ ParseEntered(body)
            /\ UNCHANGED <<inner, result>>
    /\ UNCHANGED <<today, op, chartCalls, req, gets>>

\* lines 142-148: the parser has ended; get_chart_data and its caller end
ChartReturns ==
    /\ pc = "parse"
    /\ ppc \in {"returned", "raised"}
    /\ inner' = ChartOutcome(chartCalls[1], ppc, points)
    /\ result' = OpOutcome(op.fn, inner')
    /\ pc' = "idle"
    /\ UNCHANGED <<today, op, chartCalls, req, gets, transport>>
    /\ UNCHANGED parseVars

\* lines 81-99: the GET answers, and search runs to its end
SearchResponds(status, data) ==
    /\ pc = "get"
    /\ op.fn = "search"
    /\ transport' = [kind |-> "response", status |-> status, data |-> data]
    /\ inner' = NoOutcome
    /\ result' = IF StatusRaises(status) THEN Raise(HTTPError(status))
                 ELSE SearchOutcome(data)
    /\ pc' = "idle"
    /\ UNCHANGED <<today, op, chartCalls, req, gets>>
    /\ UNCHANGED parseVars

ClientNext ==
    \/ \E q \in Queries, m \in Markets : Search(q, m)
    \/ \E i \in Ids, s \in TimeSpans, q \in Qualities, v \in BOOLEAN :
          GetChartData(i, s, q, v)
    \/ \E i \in Ids : GetIntraday(i)
    \/ \E i \in Ids : GetWeekly(i)
    \/ \E i \in Ids : GetMonthly(i)
    \/ \E i \in Ids : GetYearly(i)
    \/ \E e \in TransportErrors : TransportRaises(e)
    \/ \E st \in Statuses, b \in ChartBodies : ChartResponds(st, b)
    \/ ChartReturns
    \/ \E st \in Statuses, d \in SearchBodies : SearchResponds(st, d)

(***************************************************************************)
(* Specifications                                                          *)
(***************************************************************************)
\* the client; the parser runs when get_chart_data hands it a response text
Init ==
    /\ ClientInit
    /\ frags = <<>> /\ text = <<>> /\ objects = <<>> /\ idx = 0
    /\ points = <<>> /\ origin = <<>> /\ ppc = "idle"

Next == ClientNext \/ ParseNext

Spec == Init /\ [][Next]_vars

\* _parse_chart_response on every input text: the client stays idle
ParseSpecInit ==
    /\ ParseInit
    /\ today = CHOOSE d \in Dates : d.year = 2026
    /\ pc = "idle" /\ op = [fn |-> "none"] /\ chartCalls = <<>>
    /\ req = [url |-> <<>>, params |-> <<>>, timeout |-> DefaultTimeout]
    /\ gets = 0 /\ transport = NoOutcome /\ inner = NoOutcome /\ result = NoOutcome

ParseSpec == ParseSpecInit /\ [][ParseNext]_vars

(***************************************************************************)
(* What the fragments of the input denote, read from the tokens and not   *)
(* from the text                                                           *)
(***************************************************************************)
OptionalFields == {"high", "low", "open", "volume", "pctrel", "decimals"}

\* the fragment has a key named exactly name
HasKey(fr, name) == \E k \in 1..Len(fr.fields) : fr.fields[k].name = name

\* the first pair of the fragment whose key is exactly name
FieldNamed(fr, name) ==
    fr.fields[Min({k \in 1..Len(fr.fields) : fr.fields[k].name = name})]

ArgOr0(fr, k) == IF k <= Len(fr.args) THEN fr.args[k].v ELSE 0

\* the timestamp the date arguments denote, the month made one-based
Timestamp(fr) ==
    [year |-> fr.args[1].v, month |-> fr.args[2].v + 1, day |-> fr.args[3].v,
     hour |-> ArgOr0(fr, 4), minute |-> ArgOr0(fr, 5), second |-> ArgOr0(fr, 6)]

\* the date arguments are integers that name a day and a time of day
IsDate(fr) ==
    /\ Len(fr.args) >= 3
    /\ \A k \in 1..Len(fr.args) : fr.args[k].ok
    /\ fr.args \in {DFull, DJune, DThree, DFour, DFive}

\* the value a field's numeral denotes, as the point holds it
Denoted(name, f) ==
    IF name \in {"volume", "decimals"}
    THEN (IF f.num.neg THEN 0 - f.num.ip ELSE f.num.ip)
    ELSE f.num

DefaultOf(name) ==
    CASE name = "volume" -> 0
      [] name = "decimals" -> 2
      [] OTHER -> [neg |-> FALSE, ip |-> 0, fp |-> <<>>]

\* every value of a recognized key is a number
FieldsWellFormed(fr) ==
    \A k \in 1..Len(fr.fields) :
        fr.fields[k].name \in (OptionalFields \cup {"close"}) => fr.fields[k].isnum

\* a valid fragment: a date, a close, and no malformed recognized value
IsValidFragment(fr) == IsDate(fr) /\ HasKey(fr, "close") /\ FieldsWellFormed(fr)

ExpectedField(fr, name) ==
    IF HasKey(fr, name) THEN Denoted(name, FieldNamed(fr, name)) ELSE DefaultOf(name)

ExpectedPoint(fr) ==
    [date |-> Timestamp(fr),
     open |-> ExpectedField(fr, "open"),
     high |-> ExpectedField(fr, "high"),
     low |-> ExpectedField(fr, "low"),
     close |-> ExpectedField(fr, "close"),
     volume |-> ExpectedField(fr, "volume"),
     pctrel |-> ExpectedField(fr, "pctrel"),
     decimals |-> ExpectedField(fr, "decimals")]

RECURSIVE ExpectedPoints(_)
ExpectedPoints(frs) ==
    IF frs = <<>> THEN <<>>
    ELSE (IF IsValidFragment(frs[1]) THEN <<ExpectedPoint(frs[1])>> ELSE <<>>)
         \o ExpectedPoints(Tail(frs))

\* the parser has ended, one way or the other
ParseEnded == ppc \in {"returned", "raised"}

\* every fragment of the text is a match of object_pattern, in the same order
MatchesAreFragments ==
    ppc \in {"loop", "returned", "raised"} =>
        /\ Len(objects) = Len(frags)
        /\ \A j \in 1..Len(frags) : RenderFrag(frags[j]) = FullObj(objects[j])

(***************************************************************************)
(* Claims about _parse_chart_response (ParseSpec)                          *)
(***************************************************************************)

\* C1: for every input text _parse_chart_response returns and never raises;
\* a malformed fragment is skipped and every valid fragment of the text is
\* still returned.
C1_NeverRaises ==
    /\ ppc # "raised"
    /\ ppc = "returned" =>
          \A j \in 1..Len(frags) :
              IsValidFragment(frags[j]) => \E k \in 1..Len(origin) : origin[k] = j

\* C2: a fragment with no key named exactly close never produces a point.
C2_NoCloseNoPoint ==
    \A k \in 1..Len(points) : HasKey(frags[origin[k]], "close")

\* the fragment has the shape {date:new Date(Y,M,D,h,m,s),close:C,...}
IsFullFragment(fr) ==
    /\ Len(fr.args) = 6
    /\ IsDate(fr)
    /\ fr.args[2].v \in 0..11
    /\ fr.fields # <<>>
    /\ fr.fields[1].name = "close"
    /\ FieldsWellFormed(fr)

\* C3: the point of a valid fragment {date:new Date(Y,M,D,h,m,s),close:C,...}
\* has the timestamp Y, M+1, D, h, m, s and the close C; when the parser
\* returns, every such fragment has its point.
C3_TimestampAndClose ==
    /\ \A k \in 1..Len(points) :
          LET fr == frags[origin[k]]
          IN  IsFullFragment(fr) =>
                 /\ points[k].date = [year |-> fr.args[1].v,
                                      month |-> fr.args[2].v + 1,
                                      day |-> fr.args[3].v,
                                      hour |-> fr.args[4].v,
                                      minute |-> fr.args[5].v,
                                      second |-> fr.args[6].v]
                 /\ points[k].close = fr.fields[1].num
    /\ ppc = "returned" =>
          \A j \in 1..Len(frags) :
              IsFullFragment(frags[j]) => \E k \in 1..Len(origin) : origin[k] = j

\* a text with a full fragment in June has been parsed to its end
C3_Witness ==
    /\ ppc = "returned"
    /\ \E k \in 1..Len(points) :
          /\ IsFullFragment(frags[origin[k]])
          /\ frags[origin[k]].args[2].v = 5
          /\ points[k].date.month = 6
          /\ points[k].date.second = 59

\* C4: the output is exactly the sequence of the points of the valid fragments
\* of the input, in the order of the text.
C4_ExactlyValidInOrder ==
    ParseEnded => (ppc = "returned" /\ points = ExpectedPoints(frags))

\* C5: each recognized optional field absent from a fragment takes its default
\* in the point, and each one present keeps its parsed value.
C5_DefaultsForAbsent ==
    \A k \in 1..Len(points) : \A name \in OptionalFields :
        points[k][name] = ExpectedField(frags[origin[k]], name)

(***************************************************************************)
(* Claims about the public operations (Spec)                               *)
(***************************************************************************)
IdKeys == <<"ID_NOTATION", "id_notation", "id">>

NameKeys == <<"NAME", "name">>

\* the JSON value counts as true in Python
IsTruthy(v) == v \notin {None, IntVal(0), StrVal(<<>>)}

\* the positions of keys whose key is present in the record
PresentIn(item, keys) == {k \in 1..Len(keys) : keys[k] \in DOMAIN item}

\* the positions of keys whose key is present with a true value
TruthyIn(item, keys) ==
    {k \in 1..Len(keys) : keys[k] \in DOMAIN item /\ IsTruthy(item[keys[k]])}

\* search has returned the mapping of a list of records
SearchReturned ==
    /\ pc = "idle"
    /\ op.fn = "search"
    /\ transport.kind = "response"
    /\ result.kind = "return"
    /\ transport.data.islist

\* C6 as stated: id_notation is the value of the first key present among
\* ID_NOTATION, id_notation, id, and 0 only if none is present; name is the
\* value of the first key present among NAME, name, and "" if neither is.
C6_FirstPresentKey ==
    SearchReturned =>
        \A k \in 1..Len(result.value) :
            LET item == transport.data.items[k]
                r == result.value[k]
                ids == PresentIn(item, IdKeys)
                names == PresentIn(item, NameKeys)
            IN  /\ IF ids = {} THEN r.id_notation = 0
                   ELSE /\ item[IdKeys[Min(ids)]] # None
                        /\ r.id_notation = item[IdKeys[Min(ids)]].n
                /\ IF names = {} THEN r.name = StrVal(<<>>)
                   ELSE r.name = item[NameKeys[Min(names)]]

\* C6 amended: id_notation is int() of the value of the first key, in the order
\* ID_NOTATION, id_notation, id, whose value is true in Python (present, not
\* null, not 0, not empty), and 0 if no key has such a value; name is the first
\* such value among NAME, name, and "" if there is none.
C6_FirstTruthyKey ==
    SearchReturned =>
        \A k \in 1..Len(result.value) :
            LET item == transport.data.items[k]
                r == result.value[k]
                ids == TruthyIn(item, IdKeys)
                names == TruthyIn(item, NameKeys)
            IN  /\ IF ids = {} THEN r.id_notation = 0
                   ELSE r.id_notation = item[IdKeys[Min(ids)]].n
                /\ IF names = {} THEN r.name = StrVal(<<>>)
                   ELSE r.name = item[NameKeys[Min(names)]]

\* a record whose ID_NOTATION is 0 and whose id_notation is not was mapped to
\* the latter, and a record whose NAME is empty to its name
C6_Witness ==
    /\ SearchReturned
    /\ \E k \in 1..Len(result.value) :
          LET item == transport.data.items[k]
          IN  /\ {"ID_NOTATION", "id_notation", "NAME", "name"} \subseteq DOMAIN item
              /\ item["ID_NOTATION"] = IntVal(0)
              /\ item["NAME"] = StrVal(<<>>)
              /\ result.value[k].id_notation = 4039
              /\ result.value[k].name = StrVal(<<"A", "S", "S", "D">>)

BaseKeys == {"ID_NOTATION", "QUALITY", "VOLUME"}

\* C7: with time_span = MAX the params hold DATEINI = 1900-01-01 and DATEFIN =
\* the current date and no TIME_SPAN; with any other span they hold TIME_SPAN =
\* the span and neither DATEINI nor DATEFIN.
C7_MaxSendsDates ==
    chartCalls # <<>> =>
        LET c == chartCalls[1]
            p == req.params
        IN  IF c.time_span = "MAX"
            THEN /\ DOMAIN p = BaseKeys \cup {"DATEINI", "DATEFIN"}
                 /\ p["DATEINI"] = <<"1", "9", "0", "0", "-", "0", "1", "-", "0", "1">>
                 /\ p["DATEFIN"] = today.iso
            ELSE /\ DOMAIN p = BaseKeys \cup {"TIME_SPAN"}
                 /\ p["TIME_SPAN"] = c.time_span

\* a MAX request is in flight
C7_Witness ==
    /\ pc = "get"
    /\ chartCalls # <<>>
    /\ chartCalls[1].time_span = "MAX"
    /\ "DATEFIN" \in DOMAIN req.params

\* C8: VOLUME is the string "true" when the volume flag is enabled and the
\* string "false" when it is disabled.
C8_VolumeLowercase ==
    chartCalls # <<>> =>
        req.params["VOLUME"] = IF chartCalls[1].volume THEN <<"t", "r", "u", "e">> ELSE <<"f", "a", "l", "s", "e">>

\* a request with the volume flag enabled is in flight
C8_Witness ==
    /\ pc = "get"
    /\ chartCalls # <<>>
    /\ chartCalls[1].volume
    /\ req.params["VOLUME"] = <<"t", "r", "u", "e">>

\* C9: every call of search or get_chart_data makes exactly one GET attempt;
\* when the attempt fails the operation ends with that same error.
C9_OneGetErrorPropagates ==
    /\ op.fn # "none" => gets = 1
    /\ (pc = "idle" /\ transport.kind = "error") => result = Raise(transport.error)
    /\ (pc = "idle" /\ transport.kind = "response" /\ transport.status >= 400) =>
          result = Raise([type |-> "HTTPError", status |-> transport.status])

\* a call has ended with the timeout its one GET raised
C9_Witness ==
    /\ pc = "idle"
    /\ op.fn \in {"search", "get_chart_data"}
    /\ transport.kind = "error"
    /\ transport.error = Err("Timeout")
    /\ result = Raise(Err("Timeout"))
    /\ gets = 1

AccessorSpan ==
    [get_intraday |-> "1D", get_weekly |-> "5D", get_monthly |-> "1M",
     get_yearly |-> "1Y"]

\* C10: each accessor calls get_chart_data exactly once, with its id, its fixed
\* span and the default quality and volume, and returns that call's result.
C10_AccessorsDelegate ==
    op.fn \in DOMAIN AccessorSpan =>
        /\ chartCalls = <<[id_notation |-> op.id_notation,
                           time_span |-> AccessorSpan[op.fn],
                           quality |-> "RLT",
                           volume |-> FALSE]>>
        /\ pc = "idle" => (result # NoOutcome /\ result = inner)

\* get_weekly has returned the chart data of its 5D call
C10_Witness ==
    /\ pc = "idle"
    /\ op.fn = "get_weekly"
    /\ result.kind = "return"
    /\ result.value.time_span = "5D"
    /\ result.value.id_notation = op.id_notation
    /\ Len(result.value.points) > 0

(***************************************************************************)
(* Claims about the fields and the dates of a fragment (ParseSpec)         *)
(***************************************************************************)

\* C11: the value of each recognized field of a point comes only from the
\* key of its fragment named exactly as the field: it is the value of that
\* key when the fragment has it, and no other key (prevclose, preopen)
\* supplies or changes it.
C11_ExactKeysOnly ==
    \A k \in 1..Len(points) : \A n \in 1..Len(Fields) :
        LET fr == frags[origin[k]]
            name == Fields[n]
        IN  IF HasKey(fr, name)
            THEN points[k][name] = Denoted(name, FieldNamed(fr, name))
            ELSE name # "close" /\ points[k][name] = DefaultOf(name)

\* the date arguments are n integers
HasIntArgs(fr, n) == Len(fr.args) = n /\ \A k \in 1..Len(fr.args) : fr.args[k].ok

\* the date has fewer than 3 integer components
IsShortDate(fr) == \E n \in 1..2 : HasIntArgs(fr, n)

\* the date has 3, 4 or 5 integer components
LacksTimeParts(fr) == \E n \in 3..5 : HasIntArgs(fr, n)

\* component c (4: hour, 5: minute, 6: second) of a timestamp
TimePart(date, c) ==
    CASE c = 4 -> date.hour
      [] c = 5 -> date.minute
      [] c = 6 -> date.second

\* C12: the timestamp of a fragment whose date has 3, 4 or 5 integer
\* components has the components given and 0 for each missing hour, minute
\* and second, and every such valid fragment has its point when the parser
\* returns; a fragment whose date has fewer than 3 components gives no point
\* and does not end the loop: the parser never raises at it, and it returns
\* only after all the matches have been processed.
C12_MissingTimeIsZero ==
    /\ \A k \in 1..Len(points) :
          LET fr == frags[origin[k]]
          IN  /\ ~IsShortDate(fr)
              /\ LacksTimeParts(fr) =>
                     /\ points[k].date = Timestamp(fr)
                     /\ \A c \in (Len(fr.args) + 1)..6 : TimePart(points[k].date, c) = 0
                     /\ \A c \in 4..Len(fr.args) :
                            TimePart(points[k].date, c) = fr.args[c].v
    /\ ppc = "raised" => ~IsShortDate(frags[idx + 1])
    /\ ppc = "returned" =>
          /\ idx = Len(frags)
          /\ \A j \in 1..Len(frags) :
                 (LacksTimeParts(frags[j]) /\ IsValidFragment(frags[j])) =>
                     \E k \in 1..Len(origin) : origin[k] = j

\* a text whose first fragment has a 2-component date and whose second has a
\* 5-component date has been parsed to its end: one point, of the second
\* fragment, with the minute given and the second 0
C12_Witness ==
    /\ ppc = "returned"
    /\ Len(frags) = 2
    /\ IsShortDate(frags[1])
    /\ HasIntArgs(frags[2], 5)
    /\ Len(points) = 1
    /\ origin = <<2>>
    /\ points[1].date.minute = frags[2].args[5].v
    /\ points[1].date.minute # 0
    /\ points[1].date.second = 0

\* C13: every point of the list has a volume that is an integer and is not
\* negative, whatever the input text.
C13_VolumeNonNegative ==
    \A k \in 1..Len(points) : points[k].volume \in Nat
=============================================================================
